---- MODULE Spec2Model ----
(***************************************************************************)
(* auto-provision: a dependency-injection container.                       *)
(*                                                                         *)
(* Context (src/src/context.js) owns the registry `_providers`, a plain JS *)
(* object mapping key -> Provider, and offers provide / resolve /          *)
(* resolveAll / using.  Provider (./provider, not part of the sources at   *)
(* hand) is modelled from the specification: as / with / aliasTo / get.    *)
(*                                                                         *)
(* Promises are bluebird promises.  A call made by the caller is a task;   *)
(* the synchronous part of a call is one action, and the later callbacks   *)
(* of the promise chain that read the registry (the .map over the selected *)
(* keys, the .map over the sub-conditions of an array) are further actions *)
(* that the scheduler runs at some later tick, so caller code (provide,    *)
(* as, with, further calls) can run in between.  The callbacks that read   *)
(* nothing but the values handed to them (.then, .reduce, .filter) run in  *)
(* the step that settles their input.                                      *)
(***************************************************************************)
EXTENDS Integers, Sequences, FiniteSets, TLC

\* ------------------------------------------------------------------ bounds
MaxProviders == 2      \* Provider instances created by provide()
MaxContexts == 3       \* Contexts constructed
MaxCost == 2           \* the callers' budget of calls: a call of resolve or
                       \* of a using-wrapper costs 1, a call of resolveAll
                       \* costs the whole budget

\* ------------------------------------------------------------- JS values
Nil == "nil"           \* "no value" of the model (not a JS value)

\* Keys: a plain key, an integer-like key (an array index of a JS object)
\* and a key that Object.prototype defines ("constructor").
Keys == {"a", "1", "constructor"}

\* the keys the callers of the model register and alias
Provided == {"a", "1"}

\* Values: "0" is JS 0.  A literal is a value, or a promise of one when
\* the second component is TRUE; a factory returns a value, or a promise
\* of one.
Literals == {<<"0", FALSE>>, <<"v1", FALSE>>, <<"v1", TRUE>>}

Returns == {<<"v2", FALSE>>, <<"v2", TRUE>>, <<"boom", FALSE>>, <<"boom", TRUE>>}

\* what a failing factory raises, or what the promise it returns is
\* rejected with
Raises == {"boom"}

\* !!value is false for these
Falsy == {"0", "''", "false", "null", "undefined", "NaN"}

Truthy(v) == v \notin Falsy

\* ---------------------------------------------------------------- errors
NoError == [name |-> Nil, key |-> Nil]

\* new DependencyError(`Cannot find provider for: ${key}`)
DependencyError(key) == [name |-> "DependencyError", key |-> key]

\* provider.get is not a function (provider is an inherited property)
TypeError(key) == [name |-> "TypeError", key |-> key]

\* Maximum call stack size exceeded (an alias cycle)
RangeError == [name |-> "RangeError", key |-> Nil]

\* a Provider that was never given a strategy
UnconfiguredError == [name |-> "UnconfiguredProvider", key |-> Nil]

\* the failure v of a factory
FactoryError(v) == [name |-> v, key |-> Nil]

\* ----------------------------------------------------- the JS object {}
\* An object is the sequence of its own properties in insertion order.
Undefined == 0         \* obj[key] of a missing property
Inherited == -1        \* obj[key] found on Object.prototype

\* properties every object inherits from Object.prototype
ObjectPrototype == {"constructor"}

\* keys that are array indices ("0", "1", ...) and their numeric value
IsArrayIndex(key) == key \in {"1"}

ArrayIndex(key) == IF key = "1" THEN 1 ELSE 0

HasOwn(obj, key) == \E i \in 1..Len(obj) : obj[i].key = key

\* obj[key]
GetProperty(obj, key) ==
    IF HasOwn(obj, key)
    THEN LET i == CHOOSE i \in 1..Len(obj) : obj[i].key = key IN obj[i].pid
    ELSE IF key \in ObjectPrototype THEN Inherited ELSE Undefined

\* delete obj[key]
DeleteProperty(obj, key) == SelectSeq(obj, LAMBDA e : e.key # key)

\* variant: the object is replaced by one holding the new property only
SetPropertyAlone(obj, key, pid) == <<[key |-> key, pid |-> pid]>>

\* variant: a key that is registered keeps its first Provider
SetPropertyOnce(obj, key, pid) ==
    IF HasOwn(obj, key) THEN obj ELSE Append(obj, [key |-> key, pid |-> pid])

\* obj[key] = pid : an own property keeps its place, a new one is appended
SetProperty(obj, key, pid) ==
    IF HasOwn(obj, key)
    THEN LET i == CHOOSE i \in 1..Len(obj) : obj[i].key = key
         IN [obj EXCEPT ![i].pid = pid]
    ELSE Append(obj, [key |-> key, pid |-> pid])

\* the own keys in insertion order
InsertionOrder(obj) == [i \in 1..Len(obj) |-> obj[i].key]

RECURSIVE SortedIndices(_)
\* the array-index keys of a set, ascending
SortedIndices(ks) ==
    IF ks = {} THEN <<>>
    ELSE LET m == CHOOSE k \in ks : \A o \in ks : ArrayIndex(k) <= ArrayIndex(o)
         IN <<m>> \o SortedIndices(ks \ {m})

\* Object.keys(obj): array-index keys ascending, then the other keys in
\* insertion order
ObjectKeys(obj) ==
    SortedIndices({obj[i].key : i \in {j \in 1..Len(obj) : IsArrayIndex(obj[j].key)}})
    \o SelectSeq(InsertionOrder(obj), LAMBDA k : ~IsArrayIndex(k))

\* providers, pool, tasks and wrappers are one Context and the calls made
\* of it; repo is Context._repo, contexts the Contexts constructed, got the
\* result of the last Context.get.
VARIABLES providers, pool, tasks, wrappers, repo, contexts, got

vars == <<providers, pool, tasks, wrappers, repo, contexts, got>>

repoVars == <<repo, contexts, got>>

\* ------------------------------------------------------------- Provider
\* A Provider instance: its strategy ("none" until as/with/aliasTo),
\* the value its literal or factory produces, whether that value is an
\* eventual value (a promise), the alias target, the state of the
\* production ("idle": nothing produced, "pending": an eventual value not
\* yet settled, "ready": the value is there, "failed": the factory raised
\* or its eventual value was rejected) and the number of times its
\* factory has run.  key records the key provide() was called with.
NewProvider(key) ==
    [key |-> key, strategy |-> "none", val |-> Nil, async |-> FALSE,
     target |-> Nil, st |-> "idle", count |-> 0]

\* What one resolve(key) hands back: a value ("val"), a promise still
\* pending on Provider pid ("wait"), a rejected promise ("reject") or a
\* synchronous throw ("throw").
ValSlot(pid, v) == [st |-> "val", val |-> v, pid |-> pid, err |-> NoError]

WaitSlot(pid, v) == [st |-> "wait", val |-> v, pid |-> pid, err |-> NoError]

RejectSlot(pid, e) == [st |-> "reject", val |-> Nil, pid |-> pid, err |-> e]

ThrowSlot(e) == [st |-> "throw", val |-> Nil, pid |-> 0, err |-> e]

Failed(slot) == slot.st \in {"reject", "throw"}

\* Provider.as(value): value is v, or a pending promise of v if async
ProviderAs(p, v, async) ==
    [p EXCEPT !.strategy = "literal", !.val = v, !.async = FALSE, !.target = Nil,
              !.st = IF async THEN "pending" ELSE "ready", !.count = 0]

\* Provider.with(factory): factory returns v, as a promise if async
ProviderWith(p, v, async) ==
    [p EXCEPT !.strategy = "factory", !.val = v, !.async = async, !.target = Nil,
              !.st = "idle", !.count = 0]

\* Provider.aliasTo(key)
ProviderAliasTo(p, key) ==
    [p EXCEPT !.strategy = "alias", !.val = Nil, !.async = FALSE, !.target = key,
              !.st = "idle", !.count = 0]

\* The factory runs: count++ and the production starts.  A factory that
\* raises leaves a failure as the production.
InvokeFactory(p) ==
    [p EXCEPT !.count = @ + 1,
              !.st = IF p.async THEN "pending"
                     ELSE IF p.val \in Raises THEN "failed" ELSE "ready"]

\* variant: a failed production is not cached
FactoryGetRetry(p) == IF p.st \in {"idle", "failed"} THEN InvokeFactory(p) ELSE p

\* variant: the production is cached once it has settled only
FactoryGetUnsettled(p) == IF p.st = "ready" THEN p ELSE InvokeFactory(p)

\* Provider.get() of a factory Provider: the factory runs on the first call
\* only, later calls hand back the cached production.
FactoryGet(p) == IF p.st = "idle" THEN InvokeFactory(p) ELSE p

\* the slot for a Provider whose production has started
Produced(pid, p) ==
    CASE p.st = "ready"  -> ValSlot(pid, p.val)
      [] p.st = "failed" -> RejectSlot(pid, FactoryError(p.val))
      [] OTHER           -> WaitSlot(pid, p.val)

RECURSIVE ContextResolve(_, _, _, _)
RECURSIVE ProviderGet(_, _, _, _)

\* variant: a Provider with no strategy yields undefined
ProviderGetUndefined(obj, pl, pid, depth) ==
    LET p == pl[pid] IN
    CASE p.strategy = "literal" -> [pool |-> pl, slot |-> Produced(pid, p)]
      [] p.strategy = "factory" ->
            LET q == FactoryGet(p)
            IN [pool |-> [pl EXCEPT ![pid] = q], slot |-> Produced(pid, q)]
      [] p.strategy = "alias"   -> ContextResolve(obj, pl, p.target, depth + 1)
      [] OTHER -> [pool |-> pl, slot |-> ValSlot(pid, Nil)]

\* variant: an alias Provider hands back the key it names
ProviderGetAliasKey(obj, pl, pid, depth) ==
    LET p == pl[pid] IN
    CASE p.strategy = "literal" -> [pool |-> pl, slot |-> Produced(pid, p)]
      [] p.strategy = "factory" ->
            LET q == FactoryGet(p)
            IN [pool |-> [pl EXCEPT ![pid] = q], slot |-> Produced(pid, q)]
      [] p.strategy = "alias"   -> [pool |-> pl, slot |-> ValSlot(pid, p.target)]
      [] OTHER -> [pool |-> pl, slot |-> RejectSlot(pid, UnconfiguredError)]

\* Provider.get(): [pool |-> the Providers afterwards, slot |-> what it returns]
ProviderGet(obj, pl, pid, depth) ==
    LET p == pl[pid] IN
    CASE p.strategy = "literal" -> [pool |-> pl, slot |-> Produced(pid, p)]
      [] p.strategy = "factory" ->
            LET q == FactoryGet(p)
            IN [pool |-> [pl EXCEPT ![pid] = q], slot |-> Produced(pid, q)]
      [] p.strategy = "alias"   -> ContextResolve(obj, pl, p.target, depth + 1)
      [] OTHER -> [pool |-> pl, slot |-> RejectSlot(pid, UnconfiguredError)]

\* Context.resolve(key), the recursion through aliases included; an alias
\* chain longer than the number of Providers is a cycle, which overflows
\* the call stack.
ContextResolve(obj, pl, key, depth) ==
    LET provider == GetProperty(obj, key) IN
    IF depth > Len(pl) THEN [pool |-> pl, slot |-> ThrowSlot(RangeError)]
    ELSE IF provider = Undefined
    THEN [pool |-> pl, slot |-> RejectSlot(0, DependencyError(key))]
    ELSE IF provider = Inherited
    THEN [pool |-> pl, slot |-> ThrowSlot(TypeError(key))]
    ELSE ProviderGet(obj, pl, provider, depth)

\* ----------------------------------------------------------- conditions
NoCond == [kind |-> "none", key |-> Nil, re |-> Nil, accept |-> {}, items |-> <<>>]

CUndefined == [NoCond EXCEPT !.kind = "undefined"]

CTrue == [NoCond EXCEPT !.kind = "true"]

CNull == [NoCond EXCEPT !.kind = "null"]

CFalse == [NoCond EXCEPT !.kind = "false"]

CKey(k) == [NoCond EXCEPT !.kind = "key", !.key = k]

CRegExp(re) == [NoCond EXCEPT !.kind = "regexp", !.re = re]

\* a predicate is the set of keys it accepts
CFunction(accept) == [NoCond EXCEPT !.kind = "function", !.accept = accept]

CArray(items) == [NoCond EXCEPT !.kind = "array", !.items = items]

\* The patterns of the model, all anchored at the start of the text: the
\* keys whose text a pattern matches, and whether it has the g flag.
RegExps == {"/^[a-z]/", "/^x/", "/^./g"}

RegExpMatches(re, key) ==
    CASE re = "/^[a-z]/" -> key \in {"a", "constructor"}
      [] re = "/^./g"    -> TRUE
      [] OTHER           -> FALSE

RegExpGlobal(re) == re = "/^./g"

\* cond.test(key) with cond.lastIndex as it is: whether it finds a match and
\* the lastIndex it leaves.  Without the g flag lastIndex is ignored; with
\* it the search starts at lastIndex, where an anchored pattern matches
\* only if lastIndex is 0, and lastIndex becomes the end of the match (1
\* for /^./), or 0 on failure.
RegExpTest(re, key, lastIndex) ==
    IF ~RegExpGlobal(re)
    THEN [found |-> RegExpMatches(re, key), lastIndex |-> lastIndex]
    ELSE IF lastIndex = 0 /\ RegExpMatches(re, key)
    THEN [found |-> TRUE, lastIndex |-> 1]
    ELSE [found |-> FALSE, lastIndex |-> 0]

Predicates == {{}, {"a"}}

Simple ==
    {CUndefined, CTrue, CNull, CFalse} \cup {CKey(k) : k \in Keys}
    \cup {CRegExp(re) : re \in RegExps} \cup {CFunction(f) : f \in Predicates}

Arrays ==
    {CArray(<<CKey("a")>>), CArray(<<CKey("1"), CKey("a")>>),
     CArray(<<CUndefined, CKey("a")>>), CArray(<<CArray(<<CKey("a")>>), CFalse>>)}

Conds == Simple \cup Arrays

\* the conditions wrappers are made for
UsingConds == {CUndefined}

\* own arguments of a call of a using-wrapper
OwnArgs == {<<"x", "y">>}

\* ---------------------------------------------------------------- tasks
\* A task is one call in flight: a call of resolve, of resolveAll (by the
\* caller, or by the .map of an array condition: then parent is the task of
\* the array) or of a using-wrapper.
\*   pc      "map"    the keys are selected, the .map over them has not run
\*           "expand" an array: the .map over its items has not run
\*           "join"   an array: its items are being resolved
\*           "wait"   the Providers are looked up, values are awaited
\*           "done"   settled
\*   status  "pending", "fulfilled", "rejected", or "thrown" when the call
\*           threw synchronously and returned no promise
\*   result  the list the promise is fulfilled with (<<v>> for resolve)
\*   consumed how many times the consumer of a using-wrapper has been called
\*   fresh   no provide / as / with / aliasTo has run since the call
\*   seen    while pc = "map": the Provider each selected key had in the
\*           registry when the keys were selected
NewTask(kind, cond, args, parent) ==
    [kind |-> kind, cond |-> cond, args |-> args, parent |-> parent,
     pc |-> "done", keys |-> <<>>, slots |-> <<>>, status |-> "pending",
     result |-> <<>>, error |-> NoError, consumed |-> 0, fresh |-> TRUE,
     seen |-> <<>>]

\* variant: no value is dropped
FilterNothing(values) == values

\* .filter(values => !!values)
FilterTruthy(values) == SelectSeq(values, Truthy)

\* The call threw: no promise is returned.
Thrown(t, e) == [t EXCEPT !.status = "thrown", !.error = e]

\* The synchronous part of Context.resolve(key) as the caller sees it.
ResolveCall(obj, pl, t) ==
    LET r == ContextResolve(obj, pl, t.cond.key, 0) IN
    [pool |-> r.pool,
     task |-> IF r.slot.st = "throw" THEN Thrown(t, r.slot.err)
              ELSE [t EXCEPT !.pc = "wait", !.slots = <<r.slot>>]]

\* Array.isArray(cond)
IsArray(c) == c.kind = "array"

\* cond instanceof RegExp
IsRegExp(c) == c.kind = "regexp"

\* isCallable(cond)
IsCallable(c) == c.kind = "function"

\* cond === undefined || cond === true
IsAll(c) == c.kind \in {"undefined", "true"}

\* variant: cond === null
IsNull(c) == c.kind = "null"

\* cond === null || cond === false
IsNone(c) == c.kind \in {"null", "false"}

RECURSIVE TestEach(_, _, _, _)
\* cond.test(key) on keys[i..] in turn, the pattern object carrying its
\* lastIndex from one test to the next
TestEach(keys, re, i, lastIndex) ==
    IF i > Len(keys) THEN <<>>
    ELSE LET r == RegExpTest(re, keys[i], lastIndex) IN
         (IF r.found THEN <<keys[i]>> ELSE <<>>)
             \o TestEach(keys, re, i + 1, r.lastIndex)

\* .filter(key => cond.test(key)), the pattern being a literal of the call
\* (lastIndex 0)
FilterRegExp(keys, c) == TestEach(keys, c.re, 1, 0)

\* variant: the predicate is not applied
FilterCallableAll(keys, c) == keys

\* .filter(cond)
FilterCallable(keys, c) == SelectSeq(keys, LAMBDA k : k \in c.accept)

\* Promise.resolve(keys) with the .map over the keys still to run
Selecting(obj, t, keys) ==
    [t EXCEPT !.pc = "map", !.keys = keys,
              !.seen = [n \in 1..Len(keys) |-> GetProperty(obj, keys[n])]]

\* The synchronous part of Context.resolveAll(cond): the dispatch on the
\* kind of cond, in the order of the code.  Object.keys is read here; the
\* key filter of a pattern or a predicate reads nothing but that list.
ResolveAllCall(obj, pl, t) ==
    LET c == t.cond IN
    CASE IsArray(c) -> [pool |-> pl, task |-> [t EXCEPT !.pc = "expand"]]
      [] IsRegExp(c) ->
            [pool |-> pl,
             task |-> Selecting(obj, t, FilterRegExp(ObjectKeys(obj), c))]
      [] IsCallable(c) ->
            [pool |-> pl,
             task |-> Selecting(obj, t, FilterCallable(ObjectKeys(obj), c))]
      [] IsAll(c) ->
            [pool |-> pl, task |-> Selecting(obj, t, ObjectKeys(obj))]
      [] IsNone(c) -> [pool |-> pl, task |-> [t EXCEPT !.pc = "wait"]]
      [] OTHER -> ResolveCall(obj, pl, t)

RECURSIVE MapResolve(_, _, _, _, _)
\* .map(key => this.resolve(key)) over keys[i..]: the mapper runs for each
\* key in order until one call throws or returns a rejected promise.
MapResolve(obj, pl, keys, i, slots) ==
    IF i > Len(keys) THEN [pool |-> pl, slots |-> slots]
    ELSE LET r == ContextResolve(obj, pl, keys[i], 0) IN
         IF Failed(r.slot)
         THEN [pool |-> r.pool, slots |-> Append(slots, r.slot)]
         ELSE MapResolve(obj, r.pool, keys, i + 1, Append(slots, r.slot))

RECURSIVE MapResolveAll(_, _, _, _, _, _)
\* .map(c => this.resolveAll(c)) over items[i..] of the array task parent:
\* each call starts a task; a call that throws ends the .map with that
\* error.
MapResolveAll(obj, pl, items, i, parent, started) ==
    IF i > Len(items) THEN [pool |-> pl, started |-> started, error |-> NoError]
    ELSE LET r == ResolveAllCall(obj, pl,
                                 NewTask("resolveAll", items[i], <<>>, parent))
         IN IF r.task.status = "thrown"
            THEN [pool |-> r.pool, started |-> started, error |-> r.task.error]
            ELSE MapResolveAll(obj, r.pool, items, i + 1, parent,
                               Append(started, r.task))

\* a settled task keeps its outcome only
Settled(t) ==
    [t EXCEPT !.pc = "done", !.keys = <<>>, !.slots = <<>>, !.seen = <<>>]

RECURSIVE Reject(_, _, _)
\* Task i is rejected with e; a pending array task waiting for it is
\* rejected with it.
Reject(ts, i, e) ==
    LET ts1 == [ts EXCEPT ![i] = [Settled(@) EXCEPT !.status = "rejected",
                                                    !.error = e]]
        up == ts[i].parent
    IN IF up # 0 /\ ts[up].status = "pending" THEN Reject(ts1, up, e) ELSE ts1

\* variant: the settlement of a promise is never delivered
SettleInNever(slots, pid, now, j) == slots

RECURSIVE SettleIn(_, _, _, _)
\* the slots j.. of one task, when the promise of Provider pid settles as
\* the slot now
SettleIn(slots, pid, now, j) ==
    IF j > Len(slots) THEN slots
    ELSE IF slots[j].st = "wait" /\ slots[j].pid = pid
    THEN SettleIn([slots EXCEPT ![j] = now], pid, now, j + 1)
    ELSE SettleIn(slots, pid, now, j + 1)

RECURSIVE SettleSlots(_, _, _, _)
\* A promise awaited by slots settles: every slot waiting on pid, of the
\* tasks i.., has its value or its failure.
SettleSlots(ts, pid, now, i) ==
    IF i > Len(ts) THEN ts
    ELSE SettleSlots([ts EXCEPT ![i].slots = SettleIn(@, pid, now, 1)],
                     pid, now, i + 1)

Children(ts, i) == SelectSeq([j \in 1..Len(ts) |-> j], LAMBDA j : ts[j].parent = i)

RECURSIVE ConcatReversed(_, _, _)
\* variant: .reduce((acc, item) => [...item, ...acc], [])
ConcatReversed(ts, js, n) ==
    IF n > Len(js) THEN <<>> ELSE ConcatReversed(ts, js, n + 1) \o ts[js[n]].result

RECURSIVE Concat(_, _, _)
\* .reduce((acc, item) => [...acc, ...item], []) over the results of the
\* tasks js[n..]
Concat(ts, js, n) ==
    IF n > Len(js) THEN <<>> ELSE ts[js[n]].result \o Concat(ts, js, n + 1)

\* variant: consumer(...ownArgs, ...values)
ConsumerOwnFirst(values, ownArgs) == ownArgs \o values

\* consumer(...values, ...ownArgs); the consumer returns its arguments
Consumer(values, ownArgs) == values \o ownArgs

\* The promise of a task is fulfilled with values: a using-wrapper then
\* calls its consumer.
Fulfil(t, values) ==
    IF t.kind = "using"
    THEN [Settled(t) EXCEPT !.status = "fulfilled",
                            !.result = Consumer(values, t.args),
                            !.consumed = @ + 1]
    ELSE [Settled(t) EXCEPT !.status = "fulfilled", !.result = values]

\* Task i has all it waits for: the values of its keys, or the lists of
\* its items.
Ready(ts, i) ==
    /\ ts[i].status = "pending"
    /\ \/ /\ ts[i].pc = "wait"
          /\ \/ \A j \in 1..Len(ts[i].slots) : ts[i].slots[j].st # "wait"
             \/ \E j \in 1..Len(ts[i].slots) : Failed(ts[i].slots[j])
       \/ /\ ts[i].pc = "join"
          /\ \A j \in 1..Len(ts) : ts[j].parent = i => ts[j].status = "fulfilled"

\* variant: a failed resolution is left out of the list
FinishPartial(ts, i) ==
    LET t == ts[i]
        good == SelectSeq(t.slots, LAMBDA slot : ~Failed(slot))
        values == [j \in 1..Len(good) |-> good[j].val]
    IN IF t.pc = "join"
       THEN [ts EXCEPT ![i] = Fulfil(t, FilterTruthy(Concat(ts, Children(ts, i), 1)))]
       ELSE IF t.kind = "resolve" THEN [ts EXCEPT ![i] = Fulfil(t, values)]
       ELSE [ts EXCEPT ![i] = Fulfil(t, FilterTruthy(values))]

\* The callbacks of a ready task run: .then(value => [value]) and .filter
\* on the values, or .reduce and .filter on the lists of the items.
Finish(ts, i) ==
    LET t == ts[i]
        bad == SelectSeq(t.slots, Failed)
        values == [j \in 1..Len(t.slots) |-> t.slots[j].val]
    IN IF t.pc = "join"
       THEN [ts EXCEPT ![i] = Fulfil(t, FilterTruthy(Concat(ts, Children(ts, i), 1)))]
       ELSE IF bad # <<>> THEN Reject(ts, i, bad[1].err)
       ELSE IF t.kind = "resolve" THEN [ts EXCEPT ![i] = Fulfil(t, values)]
       ELSE [ts EXCEPT ![i] = Fulfil(t, FilterTruthy(values))]

RECURSIVE Run(_)
\* The callbacks that read nothing but the values they are handed run as
\* soon as those values are there, the oldest task first.
Run(ts) ==
    IF \E i \in 1..Len(ts) : Ready(ts, i)
    THEN Run(Finish(ts, CHOOSE i \in 1..Len(ts) :
                            Ready(ts, i) /\ \A j \in 1..(i - 1) : ~Ready(ts, j)))
    ELSE ts

RECURSIVE Stale(_, _)
\* a registry or Provider mutation: none of the tasks i.. is fresh any more
Stale(ts, i) ==
    IF i > Len(ts) THEN ts ELSE Stale([ts EXCEPT ![i].fresh = FALSE], i + 1)

\* what a call costs of the callers' budget
Cost(t) ==
    IF t.parent # 0 THEN 0
    ELSE IF t.kind \in {"resolve", "using"} THEN 1 ELSE MaxCost

RECURSIVE Spent(_, _)
Spent(ts, i) == IF i > Len(ts) THEN 0 ELSE Cost(ts[i]) + Spent(ts, i + 1)

Affordable(t) == Spent(tasks, 1) + Cost(t) <= MaxCost

\* ---------------------------------------------------------------- state
\* no Context.get was called since the directory last changed
NoGet == [name |-> Nil, value |-> Undefined]

Init ==
    /\ providers = <<>>
    /\ pool = <<>>
    /\ tasks = <<>>
    /\ wrappers = {}
    /\ repo = <<>>
    /\ contexts = <<>>
    /\ got = NoGet

\* context.provide(key)
Provide(key) ==
    /\ Len(pool) < MaxProviders
    /\ pool' = Append(pool, NewProvider(key))
    /\ providers' = SetProperty(providers, key, Len(pool) + 1)
    /\ tasks' = Stale(tasks, 1)
    /\ UNCHANGED <<wrappers, repoVars>>

\* The callers of the model give a Provider its strategy once.
Configurable(pid) == pid \in 1..Len(pool) /\ pool[pid].strategy = "none"

\* provider.as(value)
As(pid, v, async) ==
    /\ Configurable(pid)
    /\ pool' = [pool EXCEPT ![pid] = ProviderAs(@, v, async)]
    /\ tasks' = Stale(tasks, 1)
    /\ UNCHANGED <<providers, wrappers, repoVars>>

\* provider.with(factory)
With(pid, v, async) ==
    /\ Configurable(pid)
    /\ pool' = [pool EXCEPT ![pid] = ProviderWith(@, v, async)]
    /\ tasks' = Stale(tasks, 1)
    /\ UNCHANGED <<providers, wrappers, repoVars>>

\* provider.aliasTo(key)
AliasTo(pid, key) ==
    /\ Configurable(pid)
    /\ pool' = [pool EXCEPT ![pid] = ProviderAliasTo(@, key)]
    /\ tasks' = Stale(tasks, 1)
    /\ UNCHANGED <<providers, wrappers, repoVars>>

\* The eventual value of a literal or of a factory settles: it is
\* fulfilled, or rejected when it is the promise of a failing factory.
Settle(pid) ==
    /\ pid \in 1..Len(pool)
    /\ pool[pid].st = "pending"
    /\ LET q == [pool[pid] EXCEPT !.st = IF pool[pid].val \in Raises
                                         THEN "failed" ELSE "ready"]
       IN /\ pool' = [pool EXCEPT ![pid] = q]
          /\ tasks' = Run(SettleSlots(tasks, pid, Produced(pid, q), 1))
    /\ UNCHANGED <<providers, wrappers, repoVars>>

\* context.resolve(key), called by the caller
Resolve(key) ==
    LET t == NewTask("resolve", CKey(key), <<>>, 0) IN
    /\ Affordable(t)
    /\ LET r == ResolveCall(providers, pool, t)
       IN /\ pool' = r.pool
          /\ tasks' = Run(Append(tasks, r.task))
    /\ UNCHANGED <<providers, wrappers, repoVars>>

\* context.resolveAll(cond), called by the caller
ResolveAll(cond) ==
    LET t == NewTask("resolveAll", cond, <<>>, 0) IN
    /\ Affordable(t)
    /\ LET r == ResolveAllCall(providers, pool, t)
       IN /\ pool' = r.pool
          /\ tasks' = Run(Append(tasks, r.task))
    /\ UNCHANGED <<providers, wrappers, repoVars>>

\* context.using(cond, consumer): returns the wrapper, nothing else
Using(cond) ==
    /\ cond \notin wrappers
    /\ wrappers' = wrappers \cup {cond}
    /\ UNCHANGED <<providers, pool, tasks, repoVars>>

\* (...ownArgs) => this.resolveAll(cond).then(values => consumer(...))
CallWrapper(cond, ownArgs) ==
    LET t == NewTask("using", cond, ownArgs, 0) IN
    /\ cond \in wrappers
    /\ Affordable(t)
    /\ LET r == ResolveAllCall(providers, pool, t)
       IN /\ pool' = r.pool
          /\ tasks' = Run(Append(tasks, r.task))
    /\ UNCHANGED <<providers, wrappers, repoVars>>

\* The .map over the selected keys runs: each key is resolved.
MapKeys(i) ==
    /\ i \in 1..Len(tasks)
    /\ tasks[i].pc = "map"
    /\ LET r == MapResolve(providers, pool, tasks[i].keys, 1, <<>>)
           bad == SelectSeq(r.slots, Failed)
       IN /\ pool' = r.pool
          /\ tasks' = Run(IF bad # <<>> THEN Reject(tasks, i, bad[1].err)
                          ELSE [tasks EXCEPT ![i].slots = r.slots,
                                             ![i].keys = <<>>, ![i].seen = <<>>,
                                             ![i].pc = "wait"])
    /\ UNCHANGED <<providers, wrappers, repoVars>>

\* The .map over the items of an array condition runs: resolveAll is
\* called for each item.
MapItems(i) ==
    /\ i \in 1..Len(tasks)
    /\ tasks[i].pc = "expand"
    /\ LET r == MapResolveAll(providers, pool, tasks[i].cond.items, 1, i, <<>>)
           ts == [tasks EXCEPT ![i].pc = "join"] \o r.started
       IN /\ pool' = r.pool
          /\ tasks' = Run(IF r.error # NoError THEN Reject(ts, i, r.error) ELSE ts)
    /\ UNCHANGED <<providers, wrappers, repoVars>>

Next ==
    \/ \E key \in Provided : Provide(key)
    \/ \E pid \in 1..MaxProviders, v \in Literals : As(pid, v[1], v[2])
    \/ \E pid \in 1..MaxProviders, f \in Returns : With(pid, f[1], f[2])
    \/ \E pid \in 1..MaxProviders, key \in Provided : AliasTo(pid, key)
    \/ \E pid \in 1..MaxProviders : Settle(pid)
    \/ \E key \in Keys : Resolve(key)
    \/ \E cond \in Conds : ResolveAll(cond)
    \/ \E cond \in UsingConds : Using(cond)
    \/ \E cond \in UsingConds, ownArgs \in OwnArgs : CallWrapper(cond, ownArgs)
    \/ \E i \in 1..Len(tasks) : MapKeys(i)
    \/ \E i \in 1..Len(tasks) : MapItems(i)

Spec == Init /\ [][Next]_vars

\* The calls whose settlement takes more than the call itself: eventual
\* values as literals and as results of factories, fulfilled or rejected,
\* aliases, resolve and resolveAll over all keys and over arrays.
LiveLiterals == {<<"v1", TRUE>>}

LiveReturns == {<<"v2", TRUE>>, <<"boom", TRUE>>}

LiveConds == {CUndefined, CArray(<<CKey("1"), CKey("a")>>),
              CArray(<<CArray(<<CKey("a")>>), CFalse>>)}

LiveNext ==
    \/ \E key \in Provided : Provide(key)
    \/ \E pid \in 1..MaxProviders, v \in LiveLiterals : As(pid, v[1], v[2])
    \/ \E pid \in 1..MaxProviders, f \in LiveReturns : With(pid, f[1], f[2])
    \/ \E pid \in 1..MaxProviders, key \in Provided : AliasTo(pid, key)
    \/ \E pid \in 1..MaxProviders : Settle(pid)
    \/ \E key \in Provided : Resolve(key)
    \/ \E cond \in LiveConds : ResolveAll(cond)
    \/ \E i \in 1..Len(tasks) : MapKeys(i)
    \/ \E i \in 1..Len(tasks) : MapItems(i)

\* a callback of a .map is queued
Queued == \E i \in 1..Len(tasks) : tasks[i].pc \in {"map", "expand"}

\* what a step Settle(pid) does to the Provider
Settling(pid) ==
    /\ pid \in 1..Len(pool)
    /\ pool[pid].st = "pending"
    /\ pool' = [pool EXCEPT ![pid].st = IF pool[pid].val \in Raises
                                        THEN "failed" ELSE "ready"]

\* Every eventual value the callers or the factories hand over settles
\* (weak fairness of Settle, stated on what the step does to pool), and
\* the scheduler runs every queued callback: MapKeys and MapItems are the
\* only steps that take a callback off the queue and they are enabled as
\* long as it is queued, so the queue is empty again and again.
LiveSpec ==
    /\ Init
    /\ [][LiveNext]_vars
    /\ WF_pool(\E pid \in 1..MaxProviders : Settling(pid))
    /\ []<>(~Queued)

\* ------------------------------------------------- the named instances
\* Names: a plain name, a name that Object.prototype defines, the empty
\* name, and Nil for a Context constructed with no name.
Names == {"app", "constructor", "", Nil}

\* `if (name)`
HasName(name) == name \notin {"", Nil}

\* new Context(name): the Context registers itself under a name that is
\* not falsy.  A Context is known by its index in contexts; deleted
\* records that Context.delete was called with its name since.
Constructor(name) ==
    /\ Len(contexts) < MaxContexts
    /\ contexts' = Append(contexts, [name |-> name, deleted |-> FALSE])
    /\ repo' = IF HasName(name) THEN SetProperty(repo, name, Len(contexts) + 1)
               ELSE repo
    /\ got' = NoGet
    /\ UNCHANGED <<providers, pool, tasks, wrappers>>

\* Context.get(name)
Get(name) ==
    /\ got' = [name |-> name, value |-> GetProperty(repo, name)]
    /\ UNCHANGED <<providers, pool, tasks, wrappers, repo, contexts>>

\* Context.delete(name)
Delete(name) ==
    /\ repo' = DeleteProperty(repo, name)
    /\ contexts' = [i \in 1..Len(contexts) |->
                       IF contexts[i].name = name
                       THEN [contexts[i] EXCEPT !.deleted = TRUE]
                       ELSE contexts[i]]
    /\ got' = NoGet
    /\ UNCHANGED <<providers, pool, tasks, wrappers>>

RepoNext ==
    \/ \E name \in Names : Constructor(name)
    \/ \E name \in Names \ {Nil} : Get(name)
    \/ \E name \in Names \ {Nil} : Delete(name)

RepoSpec == Init /\ [][RepoNext]_vars

\* --------------------------------------------------------- the registry now
Roots == {i \in 1..Len(tasks) : tasks[i].parent = 0}

RECURSIVE Owner(_, _)
\* the Provider that produces the value of key in the registry as it is,
\* aliases followed; 0 when there is none
Owner(key, n) ==
    LET pid == GetProperty(providers, key) IN
    IF pid \in {Undefined, Inherited} \/ n > Len(pool) THEN 0
    ELSE IF pool[pid].strategy = "alias" THEN Owner(pool[pid].target, n + 1)
    ELSE pid

\* the value key resolves to in the registry as it is
ValueNow(key) == IF Owner(key, 0) = 0 THEN Nil ELSE pool[Owner(key, 0)].val

RECURSIVE ValuesNow(_, _)
\* the values of keys[n..]
ValuesNow(keys, n) ==
    IF n > Len(keys) THEN <<>> ELSE <<ValueNow(keys[n])>> \o ValuesNow(keys, n + 1)

\* the Provider made by the latest provide(key); 0 when there is none
Latest(key) ==
    LET made == {pid \in 1..Len(pool) : pool[pid].key = key}
    IN IF made = {} THEN 0 ELSE CHOOSE pid \in made : \A q \in made : q <= pid

\* the calls of resolve made after the last change of the registry
FreshResolves == {i \in Roots : tasks[i].kind = "resolve" /\ tasks[i].fresh}

\* ------------------------------------------------------------------- C1
\* C1: the factory of a Provider runs at most once, whatever resolutions
\* reach it (resolve, resolveAll, using-wrappers, aliases) and whether or
\* not they overlap; once a resolve(k) has reached it, it has run exactly
\* once.
C1_FactoryAtMostOnce ==
    /\ \A pid \in 1..Len(pool) : pool[pid].count <= 1
    /\ \A i \in FreshResolves :
          LET pid == Owner(tasks[i].cond.key, 0) IN
          (pid # 0 /\ pool[pid].strategy = "factory" /\ tasks[i].status # "thrown")
              => pool[pid].count = 1

\* Two calls wait for the promise of the same factory, which has run once:
\* the second call was made before the first one settled.
C1_Witness ==
    \E i, j \in Roots :
        /\ i < j
        /\ tasks[i].kind = "resolve"
        /\ tasks[j].kind = "resolve"
        /\ tasks[i].status = "pending"
        /\ tasks[j].status = "pending"
        /\ tasks[i].slots = tasks[j].slots
        /\ Len(tasks[i].slots) = 1
        /\ pool[tasks[i].slots[1].pid].strategy = "factory"
        /\ pool[tasks[i].slots[1].pid].count = 1

\* ------------------------------------------------------------------- C2
\* C2: resolve(key) of a key that has no registered Provider returns a
\* promise rejected with the provider-not-found error of that key.
C2_MissingKeyRejects ==
    \A i \in FreshResolves :
        ~HasOwn(providers, tasks[i].cond.key)
            => /\ tasks[i].status = "rejected"
               /\ tasks[i].error = DependencyError(tasks[i].cond.key)

\* ------------------------------------------------------------------- C3
\* C3: the registry maps each key to the Provider of its latest
\* registration, and resolve(k) yields the literal of that Provider, at
\* once or when the promise given as the literal settles.
C3_LatestRegistrationWins ==
    /\ \A key \in Keys :
          Latest(key) # 0 => GetProperty(providers, key) = Latest(key)
    /\ \A i \in FreshResolves :
          LET pid == Latest(tasks[i].cond.key) IN
          (pid # 0 /\ pool[pid].strategy = "literal")
              => \/ /\ pool[pid].st = "ready"
                    /\ tasks[i].status = "fulfilled"
                    /\ tasks[i].result = <<pool[pid].val>>
                 \/ /\ pool[pid].st = "pending"
                    /\ tasks[i].status = "pending"
                    /\ tasks[i].slots = <<WaitSlot(pid, pool[pid].val)>>

\* resolve(k) has yielded the literal of the second registration of k,
\* which differs from the literal of the first.
C3_Witness ==
    \E i \in FreshResolves :
        /\ Len(pool) = 2
        /\ pool[1].key = tasks[i].cond.key
        /\ pool[2].key = tasks[i].cond.key
        /\ pool[1].strategy = "literal"
        /\ pool[2].strategy = "literal"
        /\ pool[1].val # pool[2].val
        /\ tasks[i].status = "fulfilled"
        /\ tasks[i].result = <<pool[2].val>>

\* ---------------------------------------------- what resolveAll is to yield
\* the calls of resolveAll made after the last change of the registry and
\* fulfilled
FreshLists ==
    {i \in Roots : /\ tasks[i].kind = "resolveAll"
                   /\ tasks[i].fresh
                   /\ tasks[i].status = "fulfilled"}

\* the keys a condition that is no array selects in the registry as it is
KeysNow(c) ==
    CASE c.kind = "regexp"   -> SelectSeq(ObjectKeys(providers),
                                          LAMBDA k : RegExpMatches(c.re, k))
      [] c.kind = "function" -> SelectSeq(ObjectKeys(providers),
                                          LAMBDA k : k \in c.accept)
      [] c.kind \in {"undefined", "true"} -> ObjectKeys(providers)
      [] c.kind = "key"      -> <<c.key>>
      [] OTHER               -> <<>>

RECURSIVE ListNow(_)
RECURSIVE ListsNow(_, _)
\* the list resolveAll(c) is to yield in the registry as it is
ListNow(c) ==
    IF c.kind = "array" THEN ListsNow(c.items, 1)
    ELSE SelectSeq(ValuesNow(KeysNow(c), 1), Truthy)

\* the lists of items[n..], one after the other
ListsNow(items, n) ==
    IF n > Len(items) THEN <<>> ELSE ListNow(items[n]) \o ListsNow(items, n + 1)

\* ------------------------------------------------------------------- C4
\* C4: resolveAll() and resolveAll(true) yield the non-falsy values of all
\* registered keys in the order the keys were registered.
C4_AllInRegistrationOrder ==
    \A i \in FreshLists :
        tasks[i].cond \in {CUndefined, CTrue}
            => tasks[i].result
                 = SelectSeq(ValuesNow(InsertionOrder(providers), 1), Truthy)

\* ------------------------------------------------------------------- C5
\* a call of resolveAll(null) or resolveAll(false) by the caller
NoneCall(ts) ==
    /\ ts # <<>>
    /\ ts[Len(ts)].parent = 0
    /\ ts[Len(ts)].kind = "resolveAll"
    /\ ts[Len(ts)].cond \in {CNull, CFalse}

\* C5: resolveAll(null) and resolveAll(false) are fulfilled with the empty
\* list, and the call leaves every Provider as it was: no factory runs and
\* no production starts.
C5_NoneYieldsEmpty ==
    /\ [](\A i \in 1..Len(tasks) :
            (tasks[i].kind = "resolveAll" /\ tasks[i].cond \in {CNull, CFalse})
                => tasks[i].status = "fulfilled" /\ tasks[i].result = <<>>)
    /\ [][(Len(tasks') = Len(tasks) + 1 /\ NoneCall(tasks')) => pool' = pool]_vars

\* resolveAll(null) or resolveAll(false) is fulfilled with a factory
\* registered that has not run.
C5_Witness ==
    /\ NoneCall(tasks)
    /\ tasks[Len(tasks)].status = "fulfilled"
    /\ \E key \in Keys :
          /\ Owner(key, 0) # 0
          /\ pool[Owner(key, 0)].strategy = "factory"
          /\ pool[Owner(key, 0)].count = 0

\* ------------------------------------------------------------------- C6
RECURSIVE Joined(_, _)
\* the results of the tasks js[n..] one after the other
Joined(js, n) ==
    IF n > Len(js) THEN <<>> ELSE tasks[js[n]].result \o Joined(js, n + 1)

\* C6: the list of an array condition is the lists of its items, each the
\* list of resolveAll(item), one after the other in the order of the
\* items; resolveAll([k]) yields the list resolveAll(k) yields.
C6_ArrayConcatenates ==
    /\ \A i \in 1..Len(tasks) :
          (tasks[i].kind = "resolveAll" /\ tasks[i].cond.kind = "array"
              /\ tasks[i].status = "fulfilled")
              => LET js == Children(tasks, i) IN
                 /\ Len(js) = Len(tasks[i].cond.items)
                 /\ \A n \in 1..Len(js) :
                       /\ tasks[js[n]].cond = tasks[i].cond.items[n]
                       /\ tasks[js[n]].kind = "resolveAll"
                 /\ tasks[i].result = Joined(js, 1)
    /\ \A i \in FreshLists :
          tasks[i].cond.kind = "array" => tasks[i].result = ListNow(tasks[i].cond)

\* resolveAll(["1", "a"]) is fulfilled with two different values, the
\* value of "1" first, with "a" registered before "1".
C6_Witness ==
    \E i \in FreshLists :
        /\ tasks[i].cond = CArray(<<CKey("1"), CKey("a")>>)
        /\ Len(tasks[i].result) = 2
        /\ tasks[i].result[1] # tasks[i].result[2]
        /\ tasks[i].result[1] = ValueNow("1")
        /\ InsertionOrder(providers) = <<"a", "1">>

\* ------------------------------------------------------------------- C7
\* the step in which the .map over the keys of task i runs resolves no
\* key but those of accepted: no other Provider changes
MapsOnly(i, accepted) ==
    (tasks[i].pc = "map" /\ tasks'[i].pc # "map")
        => \A pid \in 1..Len(pool) :
              pool'[pid] # pool[pid] => \E key \in accepted : Owner(key, 0) = pid

C8_MatchingKeysYield ==
    \A i \in FreshLists :
        /\ tasks[i].cond.kind = "regexp"
        /\ \A n \in 1..Len(KeysNow(tasks[i].cond)) :
               ValueNow(KeysNow(tasks[i].cond)[n]) # Nil
        => tasks[i].result = ListNow(tasks[i].cond)

\* ------------------------------------------------------------------- C9
\* the calls of using-wrappers
Wrapped == {i \in Roots : tasks[i].kind = "using"}

\* C9: a call of a using-wrapper calls the consumer once, when its
\* resolveAll is fulfilled and not before, with the list resolveAll yields
\* in the registry of that call followed by the call's own arguments, and
\* is fulfilled with what the consumer returns.
C9_WrapperInjects ==
    \A i \in Wrapped :
        /\ tasks[i].consumed = IF tasks[i].status = "fulfilled" THEN 1 ELSE 0
        /\ (tasks[i].fresh /\ tasks[i].status = "fulfilled")
              => tasks[i].result = ListNow(tasks[i].cond) \o tasks[i].args

\* Two calls of the wrapper: the first found no value, the second, made
\* after registrations, was given a value before its own arguments.
C9_Witness ==
    \E i, j \in Wrapped :
        /\ i < j
        /\ tasks[i].status = "fulfilled"
        /\ tasks[i].result = tasks[i].args
        /\ tasks[j].status = "fulfilled"
        /\ tasks[j].fresh
        /\ Len(tasks[j].result) > Len(tasks[j].args)
        /\ tasks[j].result[1] = ValueNow(ObjectKeys(providers)[1])
        /\ tasks[j].consumed = 1

\* ------------------------------------------------------------------ C10
\* the key the Provider registered at key is an alias of; Nil if it is none
AliasOf(key) ==
    LET pid == GetProperty(providers, key) IN
    IF pid \in {Undefined, Inherited} THEN Nil
    ELSE IF pool[pid].strategy = "alias" THEN pool[pid].target ELSE Nil

RECURSIVE Selected(_)
\* the keys the call of resolve, resolveAll or a wrapper with condition c
\* resolves in the registry as it is
Selected(c) ==
    CASE c.kind = "array"    -> UNION {Selected(c.items[n]) : n \in 1..Len(c.items)}
      [] c.kind = "regexp"   ->
            {k \in Keys : \E n \in 1..Len(FilterRegExp(ObjectKeys(providers), c)) :
                              FilterRegExp(ObjectKeys(providers), c)[n] = k}
      [] c.kind = "function" -> {k \in Keys : HasOwn(providers, k) /\ k \in c.accept}
      [] c.kind \in {"undefined", "true"} -> {k \in Keys : HasOwn(providers, k)}
      [] c.kind = "key"      -> {c.key}
      [] OTHER               -> {}

\* the value of key is produced by a factory that has failed
FactoryFailed(key) ==
    /\ Owner(key, 0) # 0
    /\ pool[Owner(key, 0)].strategy = "factory"
    /\ pool[Owner(key, 0)].st = "failed"

\* every key of ks has a Provider with a strategy
Configured(ks) ==
    \A k \in ks : Owner(k, 0) # 0 /\ pool[Owner(k, 0)].strategy # "none"

\* C11: a call of resolve, resolveAll or a using-wrapper that resolves a
\* key whose factory has failed does not throw and is not fulfilled: once
\* the Providers are looked up its promise is rejected, with the failure
\* of the factory when nothing else fails, it yields no list and the
\* consumer is not called.
C11_FactoryFailureSurfaces ==
    \A i \in Roots :
        (tasks[i].fresh /\ \E k \in Selected(tasks[i].cond) : FactoryFailed(k))
            => /\ \/ tasks[i].status = "rejected"
                  \/ /\ tasks[i].status = "pending"
                     /\ tasks[i].pc \in {"map", "expand", "join"}
               /\ tasks[i].result = <<>>
               /\ tasks[i].consumed = 0
               /\ (tasks[i].status = "rejected" /\ Configured(Selected(tasks[i].cond)))
                     => tasks[i].error \in {FactoryError(v) : v \in Raises}

\* A resolve of a key whose factory raised, and a call of a wrapper over
\* two keys, one with a value and one whose factory failed: both are
\* rejected with the failure of the factory.
C11_Witness ==
    \E i, j \in Roots :
        /\ tasks[i].kind = "resolve" /\ tasks[j].kind = "using"
        /\ tasks[i].fresh /\ tasks[j].fresh
        /\ FactoryFailed(tasks[i].cond.key)
        /\ tasks[i].status = "rejected" /\ tasks[j].status = "rejected"
        /\ tasks[i].error = FactoryError("boom")
        /\ tasks[j].error = FactoryError("boom")
        /\ \E k \in Selected(tasks[j].cond) :
              /\ ~FactoryFailed(k)
              /\ Owner(k, 0) # 0
              /\ pool[Owner(k, 0)].st = "ready"
              /\ Truthy(pool[Owner(k, 0)].val)

\* ------------------------------------------------------------------ C12
\* the keys resolveAll(c), c no array, resolves in the registry as it is
ResolvedKeys(c) ==
    IF c.kind = "regexp" THEN FilterRegExp(ObjectKeys(providers), c) ELSE KeysNow(c)

RECURSIVE Unfiltered(_)
RECURSIVE UnfilteredItems(_, _)
\* the resolved values of the keys resolveAll(c) resolves, falsy ones
\* included, in the order of the keys and of the items of an array
Unfiltered(c) ==
    IF c.kind = "array" THEN UnfilteredItems(c.items, 1)
    ELSE ValuesNow(ResolvedKeys(c), 1)

UnfilteredItems(items, n) ==
    IF n > Len(items) THEN <<>>
    ELSE Unfiltered(items[n]) \o UnfilteredItems(items, n + 1)

\* C12: a list resolveAll yields holds no falsy value, whatever the kind
\* of the condition and for the items of an array too: it is the resolved
\* values of the selected keys with the falsy ones dropped and the others
\* in their order.
C12_FalsyValuesDropped ==
    /\ \A i \in 1..Len(tasks) :
          (tasks[i].kind = "resolveAll" /\ tasks[i].status = "fulfilled")
              => \A n \in 1..Len(tasks[i].result) : Truthy(tasks[i].result[n])
    /\ \A i \in FreshLists :
          tasks[i].result = SelectSeq(Unfiltered(tasks[i].cond), Truthy)

\* resolveAll of an array of two keys, the first of value 0: the list is
\* the value of the second alone.
C12_Witness ==
    \E i \in FreshLists :
        /\ tasks[i].cond.kind = "array"
        /\ Len(Unfiltered(tasks[i].cond)) = 2
        /\ Unfiltered(tasks[i].cond)[1] \in Falsy
        /\ tasks[i].result = <<Unfiltered(tasks[i].cond)[2]>>

\* ------------------------------------------------------------------ C13
\* the Context most recently constructed with name and not deleted since;
\* Undefined when there is none
LatestNamed(name) ==
    LET named == {i \in 1..Len(contexts) :
                     contexts[i].name = name /\ ~contexts[i].deleted}
    IN IF named = {} \/ ~HasName(name) THEN Undefined
       ELSE CHOOSE i \in named : \A j \in named : j <= i

\* C13: Context.get(name) returns the Context most recently constructed
\* with that name and not deleted since, and undefined when there is
\* none; a Context constructed with no name or the empty name is never
\* returned.
C13_GetReturnsLatestNamed ==
    got.name # Nil
        => /\ got.value = LatestNamed(got.name)
           /\ got.value \in 1..Len(contexts) => HasName(contexts[got.value].name)

\* ------------------------------------------------------------------ C14
\* C14: nothing runs between the selection of the keys by resolveAll and
\* the lookup of their Providers: when the Providers are about to be
\* looked up, every selected key has the Provider it had when resolveAll
\* was called.
C14_LookupSeesRegistryOfCall ==
    \A i \in 1..Len(tasks) :
        tasks[i].pc = "map"
            => \A n \in 1..Len(tasks[i].keys) :
                  GetProperty(providers, tasks[i].keys[n]) = tasks[i].seen[n]

\* ------------------------------------------------------------------ C15
\* the most calls there are: the calls the budget allows, or one call of
\* resolveAll with the calls for the items of its array
MaxTasks == MaxCost + 2

C16_OnlyProvideChangesRegistry ==
    [][/\ providers' # providers
             => /\ Len(pool') = Len(pool) + 1
                /\ \E key \in Keys :
                      /\ GetProperty(providers', key) = Len(pool')
                      /\ \A k \in Keys \ {key} :
                            GetProperty(providers', k) = GetProperty(providers, k)
                /\ \A pid \in 1..Len(pool) : pool'[pid] = pool[pid]
       /\ \A k \in Keys : HasOwn(providers, k) => HasOwn(providers', k)
       /\ ObjectKeys(providers) # ObjectKeys(providers')
             => Len(providers') = Len(providers) + 1]_vars

\* Two keys are registered, the second after a call that failed and a
\* call that was fulfilled with the value of the first, whose factory ran.
C16_Witness ==
    /\ Len(providers) = 2
    /\ \E i, j \in Roots :
          /\ tasks[i].status = "rejected"
          /\ tasks[j].status = "fulfilled"
          /\ ~tasks[i].fresh /\ ~tasks[j].fresh
          /\ pool[1].strategy = "factory" /\ pool[1].count = 1
          /\ tasks[j].result = <<pool[1].val>>
          /\ pool[2].strategy = "none"

\* ------------------------------------------------------------------ C17
\* C17: a factory that has failed has run once and is not run again, its
\* Provider keeps the failure, and every resolve of its key made since is
\* rejected with that failure.
C17_FailureMemoized ==
    /\ [](\A pid \in 1..Len(pool) : pool[pid].st = "failed" => pool[pid].count = 1)
    /\ [](\A i \in FreshResolves :
            FactoryFailed(tasks[i].cond.key)
                => /\ tasks[i].status = "rejected"
                   /\ tasks[i].error
                        = FactoryError(pool[Owner(tasks[i].cond.key, 0)].val))
    /\ [][\A pid \in 1..Len(pool) :
             pool[pid].st = "failed" => pool'[pid] = pool[pid]]_vars

\* Two calls of resolve of a key whose factory raised at the first: both
\* are rejected with what it raised and the factory has run once.
C17_Witness ==
    \E i, j \in FreshResolves :
        /\ i < j
        /\ tasks[i].cond.key = tasks[j].cond.key
        /\ FactoryFailed(tasks[i].cond.key)
        /\ ~pool[Owner(tasks[i].cond.key, 0)].async
        /\ pool[Owner(tasks[i].cond.key, 0)].count = 1
        /\ tasks[i].status = "rejected" /\ tasks[j].status = "rejected"
        /\ tasks[j].error = FactoryError("boom")

\* ------------------------------------------------------------------ C18
\* the Provider registered at key was given no strategy
Unconfigured(key) ==
    /\ HasOwn(providers, key)
    /\ pool[GetProperty(providers, key)].strategy = "none"

\* C18: resolve of a key whose Provider was given no strategy does not
\* throw and yields no value: its promise is rejected with the
\* configuration error, as the promise for a missing key is rejected.
C18_UnconfiguredRejects ==
    \A i \in FreshResolves :
        Unconfigured(tasks[i].cond.key)
            => /\ tasks[i].status = "rejected"
               /\ tasks[i].error = UnconfiguredError
               /\ tasks[i].result = <<>>

\* A resolve of a key with a Provider and no strategy, and a resolve of a
\* key with no Provider: both are rejected.
C18_Witness ==
    \E i, j \in FreshResolves :
        /\ Unconfigured(tasks[i].cond.key)
        /\ tasks[i].status = "rejected"
        /\ GetProperty(providers, tasks[j].cond.key) = Undefined
        /\ tasks[j].status = "rejected"
        /\ tasks[j].error = DependencyError(tasks[j].cond.key)
====
